---- MODULE Spec2Model ----
(***************************************************************************)
(* A model of the DAIS database handler (src/src/py_scripts/db_handler.py): *)
(* run_query's flag parsing and safety limit, its execution and output      *)
(* branches, its exception handlers with the one-shot path-sync retry, and  *)
(* handle_command's outer boundary.                                         *)
(*                                                                          *)
(* Python strings are sequences of one-character strings, so that the       *)
(* regular expressions, strip(), split(), lower() and the substring tests   *)
(* of the source are computed character by character.                       *)
(***************************************************************************)
EXTENDS Integers, Sequences, FiniteSets, TLC

VARIABLES
    \* ---- process-lifetime state ----
    synced,        \* sys._dais_path_synced
    sysPath,       \* sys.path, as a set of directories
    driverDirs,    \* the directories in which the optional client libraries live
    reqNo,         \* number of requests this process has started
    \* ---- the request in flight ----
    pc,            \* position of the request
    cmd_input,     \* handle_command's parameter, as the host sent it
    argQuery,      \* run_query's parameter `query`, as passed by the caller
    query,         \* run_query's local `query` (reassigned while flags are parsed)
    db_type,       \* run_query's parameter `db_type`
    flags,         \* run_query's local `flags`
    clean_sql,     \* query.strip(): the clean SQL before the safety limit
    clean_query,   \* run_query's local `clean_query`: the SQL handed to execute
    adapters,      \* the adapters get_adapter created for this request, in order
    adapter,       \* run_query's local `adapter`: an index into adapters, 0 for None
    cursor,        \* the cursor execute returned
    all_rows,      \* number of rows held in `all_rows` / `rows`
    is_large,      \* run_query's local `is_large`
    exc,           \* the exception in flight
    target,        \* the file the request writes
    response,      \* the envelopes returned to the host for this request
    \* ---- observations of the request (history) ----
    attempt,       \* number of run_query invocations of this request
    first,         \* what the first invocation parsed and sent
    sent,          \* the SQL texts handed to adapter.execute, in order
    extQueries,    \* external interpreter queries made by this request
    extTotal,      \* external interpreter queries made by the process
    retries,       \* recursive retries made by the process
    failure,       \* the kind of failure the request met
    pathBefore,    \* sys.path before the last external interpreter query
    extOutcome,    \* outcome of the last external interpreter query
    escaped,       \* an exception left handle_command
    rendered,      \* the table view rendered: its lines and the PAGER value read
    \* ---- the configuration lookup ----
    cwd,           \* load_env_file's parameter, an absolute directory
    user_home,     \* the home directory
    env_files,     \* the .env files of the file system: directory -> parsed mapping
    current,       \* load_env_file's local `current`
    inspected,     \* the directories whose .env was looked for (history)
    env_vars,      \* the mapping load_env_file returned
    env_pc,        \* position of the configuration lookup
    environ,       \* os.environ
    config,        \* the static defaults: the config module, or None
    resolved_config, \* what _resolve_connection_config returned
    \* ---- the default data source ----
    dais_dir,      \* the directory ~/.dais of the file system
    cwd_writable,  \* a file can be created in the process's working directory
    db_source,     \* handle_command's local `db_source`, as handed to run_query
    connection     \* the call a network adapter made to its driver

vars == <<synced, sysPath, driverDirs, reqNo, pc, cmd_input, argQuery, query, db_type, flags,
          clean_sql, clean_query, adapters, adapter, cursor, all_rows, is_large, exc, target,
          response, attempt, first, sent, extQueries, extTotal, retries, failure,
          pathBefore, extOutcome, escaped, rendered,
          cwd, user_home, env_files, current, inspected, env_vars, env_pc, environ, config,
          resolved_config, dais_dir, cwd_writable, db_source, connection>>

runVars == <<synced, sysPath, driverDirs, reqNo, pc, cmd_input, argQuery, query, db_type,
             flags, clean_sql, clean_query, adapters, adapter, cursor, all_rows, is_large,
             exc, target, response, attempt, first, sent, extQueries, extTotal, retries,
             failure, pathBefore, extOutcome, escaped, rendered>>

configVars == <<cwd, user_home, env_files, current, inspected, env_vars, env_pc, environ,
                config, resolved_config, dais_dir, cwd_writable, db_source, connection>>

sourceVars == <<dais_dir, cwd_writable, db_source, connection>>

(***************************************************************************)
(* Strings                                                                 *)
(***************************************************************************)

\* \s of the regular expressions, str.strip() and str.split(): the inputs
\* of the model hold the space as their only whitespace character.
IsSpace(c) == c = " "

\* str.lower() on one character.
LowerChar(c) ==
    CASE c = "A" -> "a" [] c = "B" -> "b" [] c = "C" -> "c" [] c = "D" -> "d"
      [] c = "E" -> "e" [] c = "F" -> "f" [] c = "G" -> "g" [] c = "H" -> "h"
      [] c = "I" -> "i" [] c = "J" -> "j" [] c = "K" -> "k" [] c = "L" -> "l"
      [] c = "M" -> "m" [] c = "N" -> "n" [] c = "O" -> "o" [] c = "P" -> "p"
      [] c = "Q" -> "q" [] c = "R" -> "r" [] c = "S" -> "s" [] c = "T" -> "t"
      [] c = "U" -> "u" [] c = "V" -> "v" [] c = "W" -> "w" [] c = "X" -> "x"
      [] c = "Y" -> "y" [] c = "Z" -> "z" [] OTHER -> c

\* str.lower()
Lower(s) == [i \in 1..Len(s) |-> LowerChar(s[i])]

\* s[i-1 : i-1+len(p)] == p, for a 1-based position i
MatchesAt(s, p, i) ==
    /\ i >= 1
    /\ i + Len(p) - 1 <= Len(s)
    /\ \A k \in 1..Len(p) : s[i + k - 1] = p[k]

\* str.startswith
StartsWith(s, p) == MatchesAt(s, p, 1)

\* p in s
Contains(s, p) == \E i \in 1..(Len(s) + 1) : MatchesAt(s, p, i)

\* The end of the maximal run of characters satisfying (or not) IsSpace that
\* starts at position i; i - 1 when the run is empty.
SpaceRunEnd(s, i) ==
    LET stops == {k \in i..Len(s) : ~IsSpace(s[k])}
    IN  IF stops = {} THEN Len(s)
        ELSE (CHOOSE k \in stops : \A m \in stops : k <= m) - 1

WordRunEnd(s, i) ==
    LET stops == {k \in i..Len(s) : IsSpace(s[k])}
    IN  IF stops = {} THEN Len(s)
        ELSE (CHOOSE k \in stops : \A m \in stops : k <= m) - 1

\* str.strip()
Strip(s) ==
    LET keep == {k \in 1..Len(s) : ~IsSpace(s[k])}
    IN  IF keep = {} THEN <<>>
        ELSE LET lo == CHOOSE k \in keep : \A m \in keep : k <= m
                 hi == CHOOSE k \in keep : \A m \in keep : k >= m
             IN  SubSeq(s, lo, hi)

\* str.split()[-1]: the last whitespace-delimited word, "" when there is none
LastWord(s) ==
    LET starts == {i \in 1..Len(s) : ~IsSpace(s[i]) /\ (i = 1 \/ IsSpace(s[i - 1]))}
    IN  IF starts = {} THEN <<>>
        ELSE LET b == CHOOSE i \in starts : \A m \in starts : i >= m
             IN  SubSeq(s, b, WordRunEnd(s, b))

(***************************************************************************)
(* The literals of run_query                                               *)
(***************************************************************************)

F_output   == <<"-","-","o","u","t","p","u","t">>
F_json     == <<"-","-","j","s","o","n">>
F_csv      == <<"-","-","c","s","v">>
F_no_limit == <<"-","-","n","o","-","l","i","m","i","t">>

K_select == <<"s","e","l","e","c","t">>
K_limit  == <<"l","i","m","i","t">>

\* hanging = ["where", "by", "and", "or", "in", "set", "from"]
hanging == { <<"w","h","e","r","e">>, <<"b","y">>, <<"a","n","d">>, <<"o","r">>,
             <<"i","n">>, <<"s","e","t">>, <<"f","r","o","m">> }

\* " LIMIT 1000"
LIMIT_SUFFIX == <<" ","L","I","M","I","T"," ","1","0","0","0">>

\* None, for a string-valued local: `if flags.get("output")` takes None and
\* the empty string alike, and the regular expression never yields the latter.
None == <<>>

\* The saved queries of config.py: DB_QUERIES["users"] and
\* DB_QUERIES["heavy_report"]
K_users == <<"u","s","e","r","s">>
K_heavy_report == <<"h","e","a","v","y","_","r","e","p","o","r","t">>
DB_QUERIES ==
    (K_users :> <<"S","E","L","E","C","T"," ","*"," ","F","R","O","M"," ","u","s","e","r","s">>)
    @@ (K_heavy_report :>
        <<"S","E","L","E","C","T"," ","l","e","v","e","l",","," ","M","e","s","s","a","g","e"," ","F","R","O","M"," ","l","o","g","s"," ","W","H","E","R","E"," ","l","e","v","e","l","=","'","E","R","R","O","R","'"," ","L","I","M","I","T"," ","5","0","0","0">>)

(***************************************************************************)
(* 1. Parse Flags                                                          *)
(***************************************************************************)

\* re.search(r'--output\s+([^\s]+)', query): the leftmost match. \s+ and
\* [^\s]+ are greedy, and a shorter \s+ would leave a space for [^\s]+, so
\* the match takes the whole run of spaces and then the whole run of
\* non-spaces. start is m.start() + 1, end is m.end().
output_match(q) ==
    LET n == Len(F_output)
        ok(i) == /\ MatchesAt(q, F_output, i)
                 /\ i + n <= Len(q)
                 /\ IsSpace(q[i + n])
                 /\ SpaceRunEnd(q, i + n) < Len(q)
        starts == {i \in 1..Len(q) : ok(i)}
    IN  IF starts = {} THEN [found |-> FALSE, start |-> 0, end |-> 0, group1 |-> None]
        ELSE LET i  == CHOOSE k \in starts : \A m \in starts : k <= m
                 v  == SpaceRunEnd(q, i + n) + 1
                 e  == WordRunEnd(q, v)
             IN  [found |-> TRUE, start |-> i, end |-> e, group1 |-> SubSeq(q, v, e)]

\* Extract --output <filename>: the pair [flags["output"], query]
extract_output(q) ==
    LET m == output_match(q)
    IN  IF m.found
        THEN [output |-> m.group1,
              q      |-> SubSeq(q, 1, m.start - 1) \o SubSeq(q, m.end + 1, Len(q))]
        ELSE [output |-> None, q |-> q]

\* re.search(r'\s+' + re.escape(flag) + r'(\s+|$)', q): the leftmost match.
\* A flag begins with "-", so \s+ takes the whole run of spaces before it;
\* after it, \s+ is tried first and is greedy, and $ matches at the end.
flag_match(q, flag) ==
    LET n == Len(flag)
        ok(i) == /\ IsSpace(q[i])
                 /\ LET k == SpaceRunEnd(q, i)
                    IN  /\ MatchesAt(q, flag, k + 1)
                        /\ \/ k + n = Len(q)
                           \/ IsSpace(q[k + n + 1])
        starts == {i \in 1..Len(q) : ok(i)}
    IN  IF starts = {} THEN [found |-> FALSE, start |-> 0, end |-> 0]
        ELSE LET i == CHOOSE k \in starts : \A m \in starts : k <= m
                 p == SpaceRunEnd(q, i) + n
             IN  [found |-> TRUE, start |-> i,
                  end |-> IF p = Len(q) THEN p ELSE SpaceRunEnd(q, p + 1)]

\* pop_bool_flag(q, flag): the pair (q with the match replaced by a space, True),
\* or (q, False) when nothing matches.
pop_bool_flag(q, flag) ==
    LET m == flag_match(q, flag)
    IN  IF m.found
        THEN [q   |-> SubSeq(q, 1, m.start - 1) \o <<" ">> \o SubSeq(q, m.end + 1, Len(q)),
              hit |-> TRUE]
        ELSE [q |-> q, hit |-> FALSE]

(***************************************************************************)
(* 2. Safety Limit (Only for SELECT)                                       *)
(***************************************************************************)

\* words[-1].lower() if words else ""
last_word(clean) == Lower(LastWord(clean))

\* A variant that looks for "limit" in the query as written instead of in
\* its lower-cased copy
wants_limit_cased(clean, f) ==
    /\ ~f.json /\ ~f.csv /\ ~f.no_limit
    /\ StartsWith(Lower(clean), K_select)
    /\ ~Contains(clean, K_limit)
    /\ Lower(LastWord(clean)) \notin hanging

\* A variant that appends the limit whether or not --no-limit was given
wants_limit_despite_flag(clean, f) ==
    /\ ~f.json /\ ~f.csv
    /\ StartsWith(Lower(clean), K_select)
    /\ ~Contains(Lower(clean), K_limit)
    /\ Lower(LastWord(clean)) \notin hanging

\* Whether " LIMIT 1000" is appended (lines 261-268)
wants_limit(clean, f) ==
    /\ ~f.json /\ ~f.csv /\ ~f.no_limit
    /\ LET low_query == Lower(clean)
       IN  /\ StartsWith(low_query, K_select)
           /\ ~Contains(low_query, K_limit)
           /\ last_word(clean) \notin hanging

\* clean_query as handed to adapter.execute (lines 258-269)
safety_limit(clean, f) ==
    IF wants_limit(clean, f) THEN clean \o LIMIT_SUFFIX ELSE clean

(***************************************************************************)
(* Inputs and bounds                                                       *)
(***************************************************************************)

\* Number of requests one process handles, and number of pieces of a
\* generated query.
MaxRequests == 2
MaxWords == 3

\* The words generated queries are made of; each is used with and without a
\* space before it, so that a flag can stand alone, first, or inside a
\* longer token.
QueryWords ==
    { <<"S","E","L","E","C","T">>, <<"x">>, F_json, F_csv, F_no_limit, F_output,
      <<"L","i","m","i","t">>, <<"W","H","E","R","E">>, <<"i","n","s","e","r","t">> }

QueryPieces == QueryWords \cup { <<" ">> \o w : w \in QueryWords }

RECURSIVE Concat(_)
Concat(ps) == IF ps = <<>> THEN <<>> ELSE Head(ps) \o Concat(Tail(ps))

\* Every query of at most MaxWords pieces
Queries == { Concat(ps) : ps \in UNION { [1..n -> QueryPieces] : n \in 1..MaxWords } }

\* The command lines the host sends in the process model:
\*   SELECT x | SELECT x --json | SELECT x --csv | SELECT x --no-limit
\*   SELECT x --json --output x | SELECT x --csv --output x | SELECT x --output x
\*   insert x | insert x --json
\*   users | " users " | x users | heavy_report | heavy_report --csv
RequestInputs ==
    LET S == <<"S","E","L","E","C","T">>
        X == <<" ","x">>
        I == <<"i","n","s","e","r","t">>
        sp(w) == <<" ">> \o w
    IN  { S \o X,
          S \o X \o sp(F_json),
          S \o X \o sp(F_csv),
          S \o X \o sp(F_no_limit),
          S \o X \o sp(F_json) \o sp(F_output) \o X,
          S \o X \o sp(F_csv) \o sp(F_output) \o X,
          S \o X \o sp(F_output) \o X,
          I \o X,
          I \o X \o sp(F_json),
          K_users,
          sp(K_users) \o <<" ">>,
          <<"x">> \o sp(K_users),
          K_heavy_report,
          K_heavy_report \o sp(F_csv) }

\* The backend tags handle_command may resolve; "oracle" is one get_adapter
\* does not know.
DbTypes == {"sqlite", "duckdb", "postgres", "mysql", "test_autoinstall", "oracle"}

\* Sizes of the table a statement reads
RowCounts == {0, 1, 48, 49, 1000, 1001, 5000}

\* The directories of the model: sys.path starts as {"base"}; the optional
\* client libraries live in "site" or nowhere; "gone" does not exist.
BaseDir == "base"
SiteDir == "site"
GoneDir == "gone"
isdir(p) == p \in {BaseDir, SiteDir}

\* What the external interpreter may print as its sys.path
ExternalPaths == SUBSET {BaseDir, SiteDir, GoneDir}

(***************************************************************************)
(* Adapters                                                                *)
(***************************************************************************)

\* get_adapter (lines 199-211): the tags it knows
KnownTypes == {"sqlite", "duckdb", "postgres", "postgresql", "mysql", "test_autoinstall"}

\* The package each adapter's connect names when its import fails; sqlite3 is
\* imported with the module itself.
PackageOf(t) ==
    CASE t = "duckdb" -> "duckdb"
      [] t \in {"postgres", "postgresql"} -> "psycopg2-binary"
      [] t = "mysql" -> "mysql-connector-python"
      [] t = "test_autoinstall" -> "dais-test-pkg"
      [] OTHER -> ""

\* Whether connect's import of the client library succeeds: the library is
\* found when one of the directories holding it is on sys.path. The test
\* adapter raises without importing anything.
ImportSucceeds(t, path, dirs) ==
    CASE t = "sqlite" -> TRUE
      [] t = "test_autoinstall" -> FALSE
      [] OTHER -> (path \cap dirs) # {}

NewAdapter(t) == [type |-> t, connected |-> FALSE, closes |-> 0, late |-> 0]

\* adapter.close() on adapters[i]
CloseAdapter(as, i) == [as EXCEPT ![i].closes = @ + 1]

\* An execute or a fetch on adapters[i]: counted when it comes after close
UseAdapter(as, i) ==
    IF as[i].closes > 0 THEN [as EXCEPT ![i].late = @ + 1] ELSE as

\* A cursor: whether it has column metadata, the size of the table the
\* statement read, the number of rows it yields and how many were fetched.
NoCursor == [description |-> FALSE, table |-> 0, total |-> 0, pos |-> 0]
\* The file a request writes: an explicit --output path ("output") or a
\* generated temporary file ("temp"); whether its directory is writable and
\* whether a file of that name existed before the request; what has become of
\* it ("untouched", "open" once opened for writing, "closed" when complete),
\* and the number of rows written to it.
NoTarget == [kind |-> "none", dirWritable |-> TRUE, existed |-> FALSE,
             state |-> "untouched", rows |-> 0, spans |-> <<>>]
NoExc == [type |-> "none", msg |-> <<>>]
NoFirst == [flags |-> [json |-> FALSE, csv |-> FALSE, no_limit |-> FALSE, output |-> None],
            sql |-> <<>>]

Min(a, b) == IF a <= b THEN a ELSE b

\* Exceptions: the message is kept as its parts between colons, so that
\* msg.split(":")[1] is msg[2].
ImportErrorOf(t) == [type |-> "ImportError", msg |-> <<"MISSING_PKG", PackageOf(t)>>]
Error(type, text) == [type |-> type, msg |-> <<text>>]

(***************************************************************************)
(* The database behind the adapter                                         *)
(***************************************************************************)

PeekSize == 1001
BatchSize == 1000
LargeAbove == 1000
PageLines == 50
LimitRows == 1000

\* A statement yields column metadata when it is a select (lines 381-382).
HasDescription(sql) == StartsWith(Lower(sql), K_select)

\* The rows a statement over a table of `size` rows yields: the appended
\* " LIMIT 1000" caps them.
ResultRows(sql, size) ==
    IF ~HasDescription(sql) THEN 0
    ELSE IF Len(sql) >= Len(LIMIT_SUFFIX)
            /\ MatchesAt(sql, LIMIT_SUFFIX, Len(sql) - Len(LIMIT_SUFFIX) + 1)
         THEN Min(size, LimitRows)
         ELSE size

\* cursor.fetchmany(n): the number of rows returned
Fetched(c, n) == Min(n, c.total - c.pos)

(***************************************************************************)
(* The process                                                             *)
(***************************************************************************)

NoFlags == [json |-> FALSE, csv |-> FALSE, no_limit |-> FALSE, output |-> None]

\* No default data source is being chosen
SourceIdle ==
    /\ dais_dir = "present"
    /\ cwd_writable = TRUE
    /\ db_source = <<>>
    /\ connection = <<>>

\* No configuration lookup is under way
ConfigIdle ==
    /\ SourceIdle
    /\ cwd = <<>>
    /\ user_home = <<>>
    /\ env_files = <<>>
    /\ current = <<>>
    /\ inspected = {}
    /\ env_vars = <<>>
    /\ env_pc = "idle"
    /\ environ = <<>>
    /\ config = <<>>
    /\ resolved_config = <<>>

\* No table view was rendered
NoView == [lines |-> 0, PAGER |-> "unread"]

\* A process that has handled no request
InitProcess ==
    /\ synced = FALSE
    /\ sysPath = {BaseDir}
    /\ driverDirs \in {{}, {SiteDir}}
    /\ reqNo = 0
    /\ pc = "idle"
    /\ cmd_input = <<>>
    /\ argQuery = <<>>
    /\ query = <<>>
    /\ db_type = "sqlite"
    /\ flags = NoFlags
    /\ clean_sql = <<>>
    /\ clean_query = <<>>
    /\ adapters = <<>>
    /\ adapter = 0
    /\ cursor = NoCursor
    /\ all_rows = 0
    /\ is_large = FALSE
    /\ exc = NoExc
    /\ target = NoTarget
    /\ response = <<>>
    /\ attempt = 0
    /\ first = NoFirst
    /\ sent = <<>>
    /\ extQueries = 0
    /\ extTotal = 0
    /\ retries = 0
    /\ failure = "none"
    /\ pathBefore = {BaseDir}
    /\ extOutcome = "none"
    /\ escaped = FALSE
    /\ rendered = NoView

Init == InitProcess /\ ConfigIdle

\* Variables no step of a request changes except the one named
ProcessUnchanged ==
    /\ UNCHANGED <<synced, sysPath, driverDirs, reqNo, extTotal, retries, pathBefore,
                   extOutcome, rendered>>
    /\ UNCHANGED configVars

\* Raising `e` inside run_query's try block
Raise(e, kind) ==
    /\ exc' = e
    /\ failure' = kind
    /\ pc' = "except"

\* Lines 598-599: the saved queries handle_command sees; none when config.py
\* could not be imported (lines 570-573).
saved_queries(cfg) == IF cfg = "module" THEN DB_QUERIES ELSE <<>>

\* A variant that expands a saved query when its key begins the input
expand_saved_prefix(q, queries) ==
    IF \E k \in DOMAIN queries : StartsWith(q, k)
    THEN queries[CHOOSE k \in DOMAIN queries : StartsWith(q, k)]
    ELSE q

\* Lines 600-601: if query in config.DB_QUERIES: query = config.DB_QUERIES[query]
expand_saved(q, queries) ==
    IF q \in DOMAIN queries THEN queries[q] ELSE q

\* handle_command (lines 548-608): resolve the configuration, strip the
\* input, expand a saved query and call run_query. Whatever raises before the call is caught by
\* the handler's own except clause.
handle_command ==
    /\ pc \in {"idle", "done"}
    /\ reqNo < MaxRequests
    /\ reqNo' = reqNo + 1
    /\ \E line \in RequestInputs, t \in DbTypes, raises \in BOOLEAN,
          cfg \in {"module", "none"} :
        /\ cmd_input' = line
        /\ argQuery' = IF raises THEN <<>>
                       ELSE expand_saved(Strip(line), saved_queries(cfg))
        /\ db_type' = t
        /\ IF raises
           THEN /\ exc' = Error("Exception", "bad config")
                /\ failure' = "handler"
                /\ pc' = "handler_except"
                /\ attempt' = 0
           ELSE /\ exc' = NoExc
                /\ failure' = "none"
                /\ pc' = "parse"
                /\ attempt' = 1
    /\ query' = <<>>
    /\ flags' = NoFlags
    /\ clean_sql' = <<>>
    /\ clean_query' = <<>>
    /\ adapters' = <<>>
    /\ adapter' = 0
    /\ cursor' = NoCursor
    /\ all_rows' = 0
    /\ is_large' = FALSE
    /\ target' = NoTarget
    /\ response' = <<>>
    /\ first' = NoFirst
    /\ sent' = <<>>
    /\ extQueries' = 0
    /\ extOutcome' = "none"
    /\ escaped' = FALSE
    /\ rendered' = NoView
    /\ UNCHANGED <<synced, sysPath, driverDirs, extTotal, retries, pathBefore>>
    /\ UNCHANGED configVars

\* run_query, lines 229-272: extract --output, pop the three boolean flags
\* in the order --json, --csv, --no-limit, strip what is left, apply the
\* safety limit, and set adapter = None.
run_query_parse ==
    /\ pc = "parse"
    /\ \E o \in {extract_output(argQuery)} :
       \E j \in {pop_bool_flag(o.q, F_json)} :
       \E c \in {pop_bool_flag(j.q, F_csv)} :
       \E n \in {pop_bool_flag(c.q, F_no_limit)} :
       \E clean \in {Strip(n.q)} :
       \E f \in {[json |-> j.hit, csv |-> c.hit, no_limit |-> n.hit, output |-> o.output]} :
       \E sql \in {safety_limit(clean, f)} :
          /\ flags' = f
          /\ query' = n.q
          /\ clean_sql' = clean
          /\ clean_query' = sql
          /\ first' = IF attempt = 1 THEN [flags |-> f, sql |-> sql] ELSE first
    /\ adapter' = 0
    /\ cursor' = NoCursor
    /\ all_rows' = 0
    /\ pc' = "get_adapter"
    /\ UNCHANGED <<cmd_input, argQuery, db_type, adapters, is_large, exc, target, response, attempt,
                   sent, extQueries, failure, escaped>>
    /\ ProcessUnchanged

\* adapter = get_adapter(db_type)  (line 274, lines 199-211)
get_adapter ==
    /\ pc = "get_adapter"
    /\ IF db_type \in KnownTypes
       THEN /\ adapters' = Append(adapters, NewAdapter(db_type))
            /\ adapter' = Len(adapters) + 1
            /\ pc' = "connect"
            /\ UNCHANGED <<exc, failure>>
       ELSE /\ Raise(Error("ValueError", "Unsupported DB_TYPE"), "unknown_backend")
            /\ UNCHANGED <<adapters, adapter>>
    /\ UNCHANGED <<cmd_input, argQuery, query, db_type, flags, clean_sql, clean_query, cursor,
                   all_rows, is_large, target, response, attempt, first, sent,
                   extQueries, escaped>>
    /\ ProcessUnchanged

\* adapter.connect(db_source, **adapter_kwargs)  (line 275): the import of
\* the client library fails with MISSING_PKG, the connection is refused, or
\* the adapter is connected.
connect ==
    /\ pc = "connect"
    /\ IF ~ImportSucceeds(adapters[adapter].type, sysPath, driverDirs)
       THEN /\ Raise(ImportErrorOf(adapters[adapter].type), "missing_driver")
            /\ UNCHANGED adapters
       ELSE \E refused \in BOOLEAN :
              IF refused
              THEN /\ Raise(Error("OperationalError", "connection refused"), "connection")
                   /\ UNCHANGED adapters
              ELSE /\ adapters' = [adapters EXCEPT ![adapter].connected = TRUE]
                   /\ pc' = "execute"
                   /\ UNCHANGED <<exc, failure>>
    /\ UNCHANGED <<cmd_input, argQuery, query, db_type, flags, clean_sql, clean_query, adapter,
                   cursor, all_rows, is_large, target, response, attempt, first, sent,
                   extQueries, escaped>>
    /\ ProcessUnchanged

\* cursor = adapter.execute(clean_query)  (line 276): the backend rejects the
\* statement, or runs it over a table of some size.
execute ==
    /\ pc = "execute"
    /\ sent' = Append(sent, clean_query)
    /\ adapters' = UseAdapter(adapters, adapter)
    /\ \E rejected \in BOOLEAN, size \in RowCounts :
         IF rejected
         THEN /\ Raise(Error("OperationalError", "no such table"), "query")
              /\ UNCHANGED cursor
         ELSE /\ cursor' = [description |-> HasDescription(clean_query), table |-> size,
                            total |-> ResultRows(clean_query, size), pos |-> 0]
              /\ pc' = "peek"
              /\ UNCHANGED <<exc, failure>>
    /\ UNCHANGED <<cmd_input, argQuery, query, db_type, flags, clean_sql, clean_query, adapter,
                   all_rows, is_large, target, response, attempt, first, extQueries,
                   escaped>>
    /\ ProcessUnchanged

\* A variant that counts a result of exactly 1000 rows as large
large_inclusive(n) == n >= LargeAbove

\* is_large = len(all_rows) > 1000  (line 287)
large(n) == n > LargeAbove

\* Lines 279-287: when rows are wanted, all_rows = cursor.fetchmany(1001)
\* and is_large = len(all_rows) > 1000. A cursor without a result set hands
\* back no rows or, with some client libraries, raises.
peek ==
    /\ pc = "peek"
    /\ IF flags.json \/ flags.csv \/ cursor.description
       THEN \E raises \in {FALSE, ~cursor.description} :
              IF raises
              THEN /\ Raise(Error("ProgrammingError", "no results to fetch"), "query")
                   /\ adapters' = UseAdapter(adapters, adapter)
                   /\ UNCHANGED <<cursor, all_rows, is_large>>
              ELSE /\ all_rows' = Fetched(cursor, PeekSize)
                   /\ cursor' = [cursor EXCEPT !.pos = @ + Fetched(cursor, PeekSize)]
                   /\ is_large' = large(Fetched(cursor, PeekSize))
                   /\ adapters' = UseAdapter(adapters, adapter)
                   /\ pc' = "branch"
                   /\ UNCHANGED <<exc, failure>>
       ELSE /\ pc' = "branch"
            /\ UNCHANGED <<cursor, all_rows, is_large, adapters, exc, failure>>
    /\ UNCHANGED <<cmd_input, argQuery, query, db_type, flags, clean_sql, clean_query, adapter,
                   target, response, attempt, first, sent, extQueries, escaped>>
    /\ ProcessUnchanged

(***************************************************************************)
(* Response envelopes (the json.dumps calls of run_query and handle_command)*)
(***************************************************************************)

PrintEnvelope(data) == [status |-> "success", action |-> "print", data |-> data]
\* A variant of the page envelope that leaves the pager out
PageEnvelope_bare(data, pager) == [status |-> "success", action |-> "page", data |-> data]

PageEnvelope(data, pager) == [status |-> "success", action |-> "page", data |-> data, pager |-> pager]
ErrorEnvelope(msg) == [status |-> "error", message |-> msg]
MissingPkg(pkg) == [status |-> "missing_pkg", package |-> pkg]

\* return json.dumps(env)
Return(env) ==
    /\ response' = Append(response, env)
    /\ pc' = "done"

\* os.environ.get("PAGER", "less -S")
user_pager(PAGER) == IF PAGER = "unset" THEN "less -S" ELSE PAGER

(***************************************************************************)
(* run_query: the output branches (lines 289-440)                          *)
(***************************************************************************)

\* A variant that closes the adapter before the remaining rows are fetched
close_for_view_early(as, i, remaining) == CloseAdapter(as, i)

\* adapter.close() of the table view (line 398): it comes after the loop
\* that fetches the remaining rows (lines 389-396), when there is one
close_for_view(as, i, remaining) == IF remaining THEN as ELSE CloseAdapter(as, i)

\* Lines 290-299, 319-321, 337-346, 357-359, 371-385, 387-398: which way the
\* request goes once the rows have been peeked.
branch ==
    /\ pc = "branch"
    /\ \E writable \in BOOLEAN, existed \in BOOLEAN, mkstemp_fails \in BOOLEAN :
        LET out == [kind |-> "output", dirWritable |-> writable, existed |-> existed,
                    state |-> "untouched", rows |-> 0, spans |-> <<>>]
            tmp == [kind |-> "temp", dirWritable |-> TRUE, existed |-> FALSE,
                    state |-> "closed", rows |-> 0, spans |-> <<>>]
            Mkstemp == IF mkstemp_fails
                       THEN /\ Raise(Error("OSError", "No usable temporary directory"), "io")
                            /\ UNCHANGED <<target, adapters, response>>
                       ELSE /\ target' = tmp
                            /\ pc' = "open_target"
                            /\ UNCHANGED <<exc, failure, adapters, response>>
            Small(data) == /\ adapters' = CloseAdapter(adapters, adapter)
                           /\ Return(PrintEnvelope(data))
                           /\ UNCHANGED <<exc, failure, target>>
        IN  IF flags.json
            THEN IF flags.output # None
                 THEN IF ~writable
                      THEN \* os.access(dir_name, os.W_OK) is false: lines 295-299
                           /\ Return(ErrorEnvelope(<<"Permission denied">>))
                           /\ failure' = "permission"
                           /\ target' = out
                           /\ UNCHANGED <<exc, adapters>>
                      ELSE /\ target' = out
                           /\ pc' = "open_target"
                           /\ UNCHANGED <<exc, failure, adapters, response>>
                 ELSE IF is_large THEN Mkstemp ELSE Small("json rows")
            ELSE IF flags.csv
            THEN IF flags.output # None
                 THEN /\ target' = out
                      /\ pc' = "open_target"
                      /\ UNCHANGED <<exc, failure, adapters, response>>
                 ELSE IF is_large THEN Mkstemp ELSE Small("csv rows")
            ELSE IF ~cursor.description
            THEN Small("Command executed successfully.")
            ELSE /\ adapters' = close_for_view(adapters, adapter, is_large /\ flags.no_limit)
                 /\ pc' = IF is_large /\ flags.no_limit THEN "view_drain" ELSE "render"
                 /\ UNCHANGED <<exc, failure, response, target>>
    /\ UNCHANGED <<cmd_input, argQuery, query, db_type, flags, clean_sql, clean_query, adapter,
                   cursor, all_rows, is_large, attempt, first, sent, extQueries, escaped>>
    /\ ProcessUnchanged

\* with open(target_path, 'w') ...: open the file and write the rows already
\* fetched (lines 301-306, 323-327, 347-350, 361-364). Opening fails when
\* the file has to be created in a directory that is not writable; writing
\* fails when the device does.
\* Writing n rows of the result, from row `from` on, after what the file
\* holds: the file is kept as the spans of rows written, in order
\* (lines 304-306, 312-315, 349 and 353).
write_rows(spans, from, n) ==
    IF n = 0 THEN spans ELSE Append(spans, <<from, from + n - 1>>)

\* A variant that writes no more than the first 1000 of the fetched rows
already_fetched_capped(n) == Min(n, LargeAbove)

\* "Write already fetched rows": all of all_rows (lines 304 and 349)
already_fetched(n) == n

open_target ==
    /\ pc = "open_target"
    /\ IF ~target.dirWritable /\ ~target.existed
       THEN /\ Raise(Error("PermissionError", "Permission denied"), "permission")
            /\ UNCHANGED target
       ELSE \E write_fails \in BOOLEAN :
              IF write_fails
              THEN /\ Raise(Error("OSError", "No space left on device"), "io")
                   /\ target' = [target EXCEPT !.state = "open"]
              ELSE /\ target' = [target EXCEPT
                                  !.state = "open",
                                  !.rows = already_fetched(all_rows),
                                  !.spans = write_rows(@, 1, already_fetched(all_rows))]
                   /\ pc' = "drain"
                   /\ UNCHANGED <<exc, failure>>
    /\ UNCHANGED <<cmd_input, argQuery, query, db_type, flags, clean_sql, clean_query, adapters,
                   adapter, cursor, all_rows, is_large, response, attempt, first, sent,
                   extQueries, escaped>>
    /\ ProcessUnchanged

\* f"Saved JSON to: {target_path}" (line 318) in the branch of --json,
\* f"Saved CSV to: {target_path}" (line 356) in the branch of --csv
saved_message(f) == IF f.json THEN "Saved JSON to: target" ELSE "Saved CSV to: target"

\* while True: batch = cursor.fetchmany(1000); if not batch: break; write it
\* (lines 309-315, 328-333, 351-354, 365-368). After the loop the file is
\* complete, the adapter is closed and the envelope returned (lines 316-318,
\* 334-336, 355-356, 369-370).
drain ==
    /\ pc = "drain"
    /\ LET n == Fetched(cursor, BatchSize)
       IN  IF n = 0
           THEN /\ target' = [target EXCEPT !.state = "closed"]
                /\ adapters' = CloseAdapter(UseAdapter(adapters, adapter), adapter)
                /\ Return(IF target.kind = "output"
                          THEN PrintEnvelope(saved_message(flags))
                          ELSE PageEnvelope("temporary file", "cat"))
                /\ UNCHANGED <<cursor, exc, failure>>
           ELSE \E write_fails \in BOOLEAN :
                  /\ cursor' = [cursor EXCEPT !.pos = @ + n]
                  /\ adapters' = UseAdapter(adapters, adapter)
                  /\ IF write_fails
                     THEN /\ Raise(Error("OSError", "No space left on device"), "io")
                          /\ UNCHANGED <<target, response>>
                     ELSE /\ target' = [target EXCEPT
                                           !.rows = @ + n,
                                           !.spans = write_rows(@, cursor.pos + 1, n)]
                          /\ UNCHANGED <<pc, exc, failure, response>>
    /\ UNCHANGED <<cmd_input, argQuery, query, db_type, flags, clean_sql, clean_query, adapter,
                   all_rows, is_large, attempt, first, sent, extQueries, escaped>>
    /\ ProcessUnchanged

\* The table view under --no-limit (lines 389-398): fetch the rest in
\* batches, then close the adapter.
view_drain ==
    /\ pc = "view_drain"
    /\ LET n == Fetched(cursor, BatchSize)
       IN  IF n = 0
           THEN /\ adapters' = CloseAdapter(UseAdapter(adapters, adapter), adapter)
                /\ pc' = "render"
                /\ UNCHANGED <<cursor, all_rows>>
           ELSE /\ cursor' = [cursor EXCEPT !.pos = @ + n]
                /\ all_rows' = all_rows + n
                /\ adapters' = UseAdapter(adapters, adapter)
                /\ UNCHANGED pc
    /\ UNCHANGED <<cmd_input, argQuery, query, db_type, flags, clean_sql, clean_query, adapter,
                   is_large, exc, target, response, attempt, first, sent, extQueries,
                   failure, escaped>>
    /\ ProcessUnchanged

\* A variant that counts the rows only
output_lines_rows_only(rows) == rows

\* len(output_lines): the header line, the separator and one line per row
output_lines(rows) == 2 + rows

\* Lines 400-440: render the table; more than 50 lines are spooled to a
\* temporary file for the pager, fewer are returned inline.
render ==
    /\ pc = "render"
    /\ IF all_rows = 0
       THEN /\ Return(PrintEnvelope("(0 rows returned)"))
            /\ rendered' = [lines |-> 3, PAGER |-> "unread"]
            /\ UNCHANGED <<exc, failure, target>>
       ELSE IF output_lines(all_rows) > PageLines
       THEN \E spool_fails \in BOOLEAN, PAGER \in {"unset", "more"} :
              IF spool_fails
              THEN /\ Raise(Error("OSError", "No usable temporary directory"), "io")
                   /\ rendered' = [lines |-> output_lines(all_rows), PAGER |-> "unread"]
                   /\ UNCHANGED <<target, response>>
              ELSE /\ target' = [kind |-> "temp", dirWritable |-> TRUE, existed |-> FALSE,
                                 state |-> "closed", rows |-> all_rows,
                                 spans |-> write_rows(<<>>, 1, all_rows)]
                   /\ Return(PageEnvelope("temporary file", user_pager(PAGER)))
                   /\ rendered' = [lines |-> output_lines(all_rows), PAGER |-> PAGER]
                   /\ UNCHANGED <<exc, failure>>
       ELSE /\ Return(PrintEnvelope("table"))
            /\ rendered' = [lines |-> output_lines(all_rows), PAGER |-> "unread"]
            /\ UNCHANGED <<exc, failure, target>>
    /\ UNCHANGED <<cmd_input, argQuery, query, db_type, flags, clean_sql, clean_query, adapters,
                   adapter, cursor, all_rows, is_large, attempt, first, sent, extQueries,
                   escaped>>
    /\ UNCHANGED <<synced, sysPath, driverDirs, reqNo, extTotal, retries, pathBefore,
                   extOutcome>>
    /\ UNCHANGED configVars

(***************************************************************************)
(* run_query: the except clauses and the path-sync retry (lines 442-487)   *)
(***************************************************************************)

\* The exception classes of the model; all derive from Exception.
ExceptionTypes == {"Exception", "ImportError", "ValueError", "OperationalError",
                   "ProgrammingError", "PermissionError", "OSError"}

\* A variant in which only ImportError and the drivers' own errors are caught
Handler_narrow(type) ==
    IF type = "ImportError" THEN "import"
    ELSE IF type \in {"OperationalError", "ProgrammingError"} THEN "exception"
    ELSE "none"

\* The except clause of run_query that takes an exception raised in its try
\* block: `except ImportError` (line 442) before `except Exception` (line 485).
Handler(type) ==
    IF type = "ImportError" THEN "import"
    ELSE IF type \in ExceptionTypes THEN "exception"
    ELSE "none"

\* "MISSING_PKG" in msg
has_missing_pkg(msg) == \E i \in 1..Len(msg) : msg[i] = "MISSING_PKG"

\* A variant of the condition of line 449 without the one-shot guard
should_sync_unguarded(msg, guard) == has_missing_pkg(msg)

\* Line 449: the condition under which the external interpreter is asked
should_sync(msg, guard) == has_missing_pkg(msg) /\ ~guard

\* Lines 461-465: the directories appended to sys.path
new_paths(output, path) == {p \in output : isdir(p) /\ p \notin path}

\* Line 472 and the except clause of lines 477-479: the guard after an
\* attempt. It is set after the external query returned, and an attempt whose
\* external query raised leaves it as it was.
guard_after(guard, query_failed) == IF query_failed THEN guard ELSE TRUE

\* A variant that retries after every attempt, failed or not
retries_after_always(query_failed, added_something) == TRUE

\* Line 475: run_query(query, ...) is called whenever the external query
\* returned, whether or not a directory was appended.
retries_after(query_failed, added_something) == ~query_failed

\* Line 475: the query the recursive call is given is the local `query`,
\* which the flag parsing has reassigned.
retry_argument(arg, local) == local

\* pkg = msg.split(":")[1]  (line 482)
package_of(msg) == msg[2]

\* The except clauses (lines 442-449 and 485-487)
except_clause ==
    /\ pc = "except"
    /\ CASE Handler(exc.type) = "import" ->
              /\ pc' = IF should_sync(exc.msg, synced) THEN "path_sync" ELSE "report"
              /\ UNCHANGED <<adapters, response>>
         [] Handler(exc.type) = "exception" ->
              \* if adapter: adapter.close()
              /\ adapters' = IF adapter # 0 THEN CloseAdapter(adapters, adapter) ELSE adapters
              /\ Return(ErrorEnvelope(exc.msg))
         [] OTHER ->
              \* the exception leaves run_query
              /\ pc' = "handler_except"
              /\ UNCHANGED <<adapters, response>>
    /\ UNCHANGED <<cmd_input, argQuery, query, db_type, flags, clean_sql, clean_query, adapter,
                   cursor, all_rows, is_large, exc, target, attempt, first, sent,
                   extQueries, failure, escaped>>
    /\ ProcessUnchanged

\* Lines 450-479: ask the shell's python3 for its sys.path, append what is
\* new, mark the process as synced and call run_query again. When the
\* subprocess raises, the except clause passes on to the report.
path_sync ==
    /\ pc = "path_sync"
    /\ extQueries' = extQueries + 1
    /\ extTotal' = extTotal + 1
    /\ pathBefore' = sysPath
    /\ \E query_failed \in BOOLEAN, output \in ExternalPaths :
        LET added == IF query_failed THEN {} ELSE new_paths(output, sysPath)
        IN  /\ sysPath' = sysPath \cup added
            /\ synced' = guard_after(synced, query_failed)
            /\ extOutcome' = IF query_failed THEN "failed"
                             ELSE IF added # {} THEN "added" ELSE "nothing"
            /\ IF retries_after(query_failed, added # {})
               THEN /\ argQuery' = retry_argument(argQuery, query)
                    /\ UNCHANGED cmd_input
                    /\ attempt' = attempt + 1
                    /\ retries' = retries + 1
                    /\ exc' = NoExc
                    /\ failure' = "none"
                    /\ pc' = "parse"
               ELSE /\ pc' = "report"
                    /\ UNCHANGED <<cmd_input, argQuery, attempt, retries, exc, failure>>
    /\ UNCHANGED <<driverDirs, reqNo, query, db_type, flags, clean_sql, clean_query,
                   adapters, adapter, cursor, all_rows, is_large, target, response,
                   first, sent, escaped, rendered>>
    /\ UNCHANGED configVars

\* Lines 481-484: report the import failure
report ==
    /\ pc = "report"
    /\ IF has_missing_pkg(exc.msg)
       THEN Return(MissingPkg(package_of(exc.msg)))
       ELSE Return(ErrorEnvelope(exc.msg))
    /\ UNCHANGED <<cmd_input, argQuery, query, db_type, flags, clean_sql, clean_query, adapters,
                   adapter, cursor, all_rows, is_large, exc, target, attempt, first,
                   sent, extQueries, failure, escaped>>
    /\ ProcessUnchanged

\* handle_command's own except clause (lines 607-608)
handler_except ==
    /\ pc = "handler_except"
    /\ IF exc.type \in ExceptionTypes
       THEN /\ Return(ErrorEnvelope(<<"Unexpected Handler Error">> \o exc.msg))
            /\ UNCHANGED escaped
       ELSE /\ escaped' = TRUE
            /\ pc' = "done"
            /\ UNCHANGED response
    /\ UNCHANGED <<cmd_input, argQuery, query, db_type, flags, clean_sql, clean_query, adapters,
                   adapter, cursor, all_rows, is_large, exc, target, attempt, first,
                   sent, extQueries, failure>>
    /\ ProcessUnchanged

Next ==
    \/ handle_command
    \/ run_query_parse
    \/ get_adapter
    \/ connect
    \/ execute
    \/ peek
    \/ branch
    \/ open_target
    \/ drain
    \/ view_drain
    \/ render
    \/ except_clause
    \/ path_sync
    \/ report
    \/ handler_except

Spec == Init /\ [][Next]_vars

(***************************************************************************)
(* run_query's parsing alone, over every generated query                   *)
(***************************************************************************)

InitParse ==
    /\ synced = FALSE
    /\ sysPath = {BaseDir}
    /\ driverDirs = {}
    /\ reqNo = 1
    /\ pc = "parse"
    /\ argQuery \in Queries
    /\ cmd_input = argQuery
    /\ query = <<>>
    /\ db_type = "sqlite"
    /\ flags = NoFlags
    /\ clean_sql = <<>>
    /\ clean_query = <<>>
    /\ adapters = <<>>
    /\ adapter = 0
    /\ cursor = NoCursor
    /\ all_rows = 0
    /\ is_large = FALSE
    /\ exc = NoExc
    /\ target = NoTarget
    /\ response = <<>>
    /\ attempt = 1
    /\ first = NoFirst
    /\ sent = <<>>
    /\ extQueries = 0
    /\ extTotal = 0
    /\ retries = 0
    /\ failure = "none"
    /\ pathBefore = {BaseDir}
    /\ extOutcome = "none"
    /\ escaped = FALSE
    /\ rendered = NoView
    /\ ConfigIdle

NextParse == run_query_parse

SpecParse == InitParse /\ [][NextParse]_vars

(***************************************************************************)
(* load_env_file (lines 24-69)                                             *)
(***************************************************************************)

\* Absolute directories are the sequences of their components; the file
\* system of the model has directories of at most MaxDepth components.
MaxDepth == 2
DirNames == {"a", "b"}
Directories == UNION { [1..n -> DirNames] : n \in 0..MaxDepth }

\* os.path.abspath(os.sep)
root == <<>>

\* os.path.dirname of an absolute directory: the root is its own parent
dirname(p) == IF p = <<>> THEN <<>> ELSE SubSeq(p, 1, Len(p) - 1)

\* d is c or a directory above c
AncestorOrSelf(d, c) == Len(d) <= Len(c) /\ SubSeq(c, 1, Len(d)) = d

\* The lines of a .env file, as line.strip() leaves them: a comment, or
\* KEY=value. The values of the model name the directory the file is in.
CommentLine == [kind |-> "comment", key |-> "", value |-> <<>>]
PairLine(k, v) == [kind |-> "pair", key |-> k, value |-> v]
FileContents(d) ==
    { <<>>,
      <<PairLine("TEST_KEY", d)>>,
      <<CommentLine, PairLine("DB_NAME", d)>>,
      <<PairLine("TEST_KEY", d), PairLine("DB_NAME", d)>> }

\* A place in the file at which reading raises (an undecodable byte or an
\* I/O error in a later block of the file): the loop of lines 36-46 got the
\* lines before it.
RaiseLine == [kind |-> "raise", key |-> "", value |-> <<>>]

\* The lines the loop of lines 36-46 gets before the exception, if any
lines_read(lines) ==
    IF \E i \in 1..Len(lines) : lines[i].kind = "raise"
    THEN SubSeq(lines, 1, (CHOOSE i \in 1..Len(lines) :
                              /\ lines[i].kind = "raise"
                              /\ \A j \in 1..(i - 1) : lines[j].kind # "raise") - 1)
    ELSE lines

\* parse_env (lines 32-49): comments are skipped, and of the lines with the
\* same key the last one stands; an exception ends the loop and the mapping
\* built so far is returned (lines 47-49).
parse_env(file) ==
    LET lines == lines_read(file)
        pairs == {i \in 1..Len(lines) : lines[i].kind = "pair"}
        keys == {lines[i].key : i \in pairs}
        last(k) == CHOOSE i \in pairs :
                       /\ lines[i].key = k
                       /\ \A j \in pairs : lines[j].key = k => j <= i
    IN  [k \in keys |-> lines[last(k)].value]

\* A variant that finds a .env file in the start directory only
exists_env_at_start(dir, files) == dir \in DOMAIN files /\ dir = cwd

\* os.path.exists(os.path.join(current, ".env"))
exists_env(dir, files) == dir \in DOMAIN files

\* A variant of the stop guard that stops at the root only
stop_guard_root_only(dir, home, top) == dir = top

\* Line 60: if current == user_home or current == root: break
stop_guard(dir, home, top) == dir = home \/ dir = top

\* The file systems load_env_file is called in: .env files lie in some of
\* the directories from cwd up to the root.
InitEnv ==
    /\ InitProcess
    /\ driverDirs = {}
    /\ cwd \in Directories
    /\ user_home \in Directories
    /\ \E holders \in SUBSET {d \in Directories : AncestorOrSelf(d, cwd)} :
          env_files \in { f \in [holders -> UNION {FileContents(d) : d \in holders}] :
                            \A d \in holders : f[d] \in FileContents(d) }
    /\ current = cwd
    /\ inspected = {}
    /\ env_vars = <<>>
    /\ env_pc = "walk"
    /\ environ = <<>>
    /\ config = <<>>
    /\ resolved_config = <<>>
    /\ SourceIdle

\* One pass of the loop of lines 55-67, and the return of line 57 or 69
load_env_file ==
    /\ env_pc = "walk"
    /\ inspected' = inspected \cup {current}
    /\ IF exists_env(current, env_files)
       THEN /\ env_vars' = parse_env(env_files[current])
            /\ env_pc' = "returned"
            /\ UNCHANGED current
       ELSE IF stop_guard(current, user_home, root) \/ dirname(current) = current
       THEN /\ env_vars' = <<>>
            /\ env_pc' = "returned"
            /\ UNCHANGED current
       ELSE /\ current' = dirname(current)
            /\ UNCHANGED <<env_vars, env_pc>>
    /\ UNCHANGED <<cwd, user_home, env_files, environ, config, resolved_config>>
    /\ UNCHANGED sourceVars
    /\ UNCHANGED runVars

NextEnv == load_env_file

\* The function runs to its return: a sequential program keeps stepping.
SpecEnv == InitEnv /\ [][NextEnv]_vars /\ WF_vars(NextEnv)

\* The .env files parse_env is given: up to MaxLines lines, each a comment,
\* a pair, or the place where reading raises.
MaxLines == 3
EnvLines ==
    {CommentLine, PairLine("DB_TYPE", <<"first">>), PairLine("DB_TYPE", <<"second">>),
     PairLine("DB_NAME", <<"first">>), RaiseLine}
EnvFiles == UNION {[1..n -> EnvLines] : n \in 0..MaxLines}

\* load_env_file in a directory that holds a .env file
InitEnvFile ==
    /\ InitProcess
    /\ driverDirs = {}
    /\ cwd = root
    /\ user_home = root
    /\ \E file \in EnvFiles : env_files = [d \in {root} |-> file]
    /\ current = cwd
    /\ inspected = {}
    /\ env_vars = <<>>
    /\ env_pc = "walk"
    /\ environ = <<>>
    /\ config = <<>>
    /\ resolved_config = <<>>
    /\ SourceIdle

SpecEnvFile == InitEnvFile /\ [][NextEnv]_vars

(***************************************************************************)
(* _resolve_connection_config (lines 490-545)                              *)
(***************************************************************************)

\* Values: None, a string (its text is a tuple, empty for ""), or an
\* integer a config.py attribute may hold.
Unset == [kind |-> "none", text |-> <<>>]
Str(t) == [kind |-> "str", text |-> t]
Number(t) == [kind |-> "int", text |-> t]

\* str(val)  (line 543)
str(val) == [kind |-> "str", text |-> val.text]

\* default_mappings (lines 502-510)
default_mappings ==
    [DB_TYPE   |-> <<"DB_TYPE", "DB_T", "DATABASE_TYPE", "ENGINE">>,
     DB_SOURCE |-> <<"DB_SOURCE", "DB_FILE", "SQLITE_DB", "DB_S">>,
     DB_HOST   |-> <<"DB_HOST", "DB_H", "POSTGRES_HOST", "MYSQL_HOST">>,
     DB_PORT   |-> <<"DB_PORT", "DB_P", "POSTGRES_PORT", "MYSQL_TCP_PORT">>,
     DB_USER   |-> <<"DB_USER", "DB_U", "POSTGRES_USER", "MYSQL_USER">>,
     DB_PASS   |-> <<"DB_PASS", "DB_PASSWORD", "POSTGRES_PASSWORD", "MYSQL_PASSWORD",
                     "MYSQL_PWD">>,
     DB_NAME   |-> <<"DB_NAME", "DB_N", "POSTGRES_DB", "MYSQL_DATABASE">>]

\* The static defaults: no module (config is None), or the attributes of
\* the config module.
NoConfig == [module |-> FALSE, attrs |-> <<>>]
Module(attrs) == [module |-> TRUE, attrs |-> attrs]

\* A variant that lays the table of the config module over the default one
mappings_merged(cfg) ==
    IF cfg.module /\ "DB_KEY_MAPPING" \in DOMAIN cfg.attrs
    THEN cfg.attrs["DB_KEY_MAPPING"] @@ default_mappings
    ELSE default_mappings

\* getattr(config, "DB_KEY_MAPPING", None) if config, else the default
\* mappings (lines 512-517)
mappings_of(cfg) ==
    IF cfg.module /\ "DB_KEY_MAPPING" \in DOMAIN cfg.attrs
    THEN cfg.attrs["DB_KEY_MAPPING"]
    ELSE default_mappings

\* get_config_val (lines 518-519)
get_config_val(cfg, key) ==
    IF cfg.module /\ key \in DOMAIN cfg.attrs THEN cfg.attrs[key] ELSE Unset

\* for alias in aliases: if alias in source: val = source[alias]; break
first_hit(aliases, source) ==
    LET hits == {i \in 1..Len(aliases) : aliases[i] \in DOMAIN source}
    IN  IF hits = {} THEN Unset
        ELSE source[aliases[CHOOSE i \in hits : \A j \in hits : i <= j]]

\* A variant that takes an empty string for a miss
is_none_or_empty(val) == val.kind = "none" \/ val.text = <<>>

\* val is None
is_none(val) == val.kind = "none"

\* Lines 523-540: the value of one canonical key
resolve_key(canonical, aliases, file, env, cfg) ==
    LET A == first_hit(aliases, file)
        B == IF is_none(A) THEN first_hit(aliases, env) ELSE A
    IN  IF is_none(B) THEN get_config_val(cfg, canonical) ELSE B

\* Lines 499-545: resolved_config
resolve(file, env, cfg) ==
    LET table == mappings_of(cfg)
        found == {c \in DOMAIN table : ~is_none(resolve_key(c, table[c], file, env, cfg))}
    IN  [c \in found |-> str(resolve_key(c, table[c], file, env, cfg))]

\* The variable names the sources of the model may hold, and the sources:
\* each name is absent, holds the empty string, or holds a value that tells
\* its source and name.
SourceNames == {"DB_TYPE", "DB_T", "DB_FILE"}
Sources(tag) ==
    UNION { { f \in [names -> {Str(<<>>)} \cup {Str(<<tag, n>>) : n \in names}] :
                \A n \in names : f[n] \in {Str(<<>>), Str(<<tag, n>>)} } :
            names \in SUBSET SourceNames }

\* The config modules of the model: DB_TYPE is absent, empty or set; DB_PORT
\* is absent or an integer, or DB_SOURCE is a path under _PROJECT_ROOT;
\* DB_KEY_MAPPING is absent or a table of its own.
ConfigModules ==
    { Module(t @@ q @@ k) :
        t \in {<<>>, [DB_TYPE |-> Str(<<>>)], [DB_TYPE |-> Str(<<"config", "DB_TYPE">>)]},
        q \in {<<>>, [DB_PORT |-> Number(<<"5432">>)],
               [DB_SOURCE |-> Str(<<"_PROJECT_ROOT", "dais_test.db">>)]},
        k \in {<<>>, [DB_KEY_MAPPING |-> [DB_TYPE |-> <<"DB_FILE", "DB_T">>]]} }

InitResolve ==
    /\ InitProcess
    /\ driverDirs = {}
    /\ cwd = <<>>
    /\ user_home = <<>>
    /\ env_files = <<>>
    /\ current = <<>>
    /\ inspected = {}
    /\ env_vars \in Sources("file")
    /\ env_pc = "resolve"
    /\ environ \in Sources("environ")
    /\ config \in {NoConfig} \cup ConfigModules
    /\ resolved_config = <<>>
    /\ dais_dir \in {"present", "absent"}
    /\ cwd_writable \in BOOLEAN
    /\ db_source = <<>>
    /\ connection = <<>>

\* resolved_config = _resolve_connection_config(env_vars, config)  (line 576)
resolve_connection_config ==
    /\ env_pc = "resolve"
    /\ resolved_config' = resolve(env_vars, environ, config)
    /\ env_pc' = "resolved"
    /\ UNCHANGED <<cwd, user_home, env_files, current, inspected, env_vars, environ, config>>
    /\ UNCHANGED sourceVars
    /\ UNCHANGED runVars

\* The default SQLite sources (lines 585 and 588)
user_source == Str(<<"~", ".dais", "dais.db">>)
local_source == Str(<<".dais.db">>)

\* default_source after lines 585-588: the user-scoped file, unless its
\* directory is missing and os.makedirs raises
default_source(exists, raises) ==
    IF ~exists /\ raises THEN local_source ELSE user_source

\* resolved_config.get(key, default)  (line 590)
get(resolved, key, default) ==
    IF key \in DOMAIN resolved THEN resolved[key] ELSE default

\* db_source.replace("_PROJECT_ROOT", cwd) if "_PROJECT_ROOT" in db_source
\* else db_source  (line 603)
replace_project_root(source) ==
    [source EXCEPT !.text = [i \in DOMAIN source.text |->
                               IF source.text[i] = "_PROJECT_ROOT" THEN "<cwd>"
                               ELSE source.text[i]]]

\* Lines 585-590 and 603 of handle_command: the directory of the user-scoped
\* file is looked for and created, then the data source is chosen.
default_data_source ==
    /\ env_pc = "resolved"
    /\ \E raises \in BOOLEAN :
          /\ dais_dir' = IF dais_dir # "absent" THEN dais_dir
                         ELSE IF raises THEN "refused" ELSE "created"
          /\ db_source' = replace_project_root(
                              get(resolved_config, "DB_SOURCE",
                                  default_source(dais_dir # "absent", raises)))
    /\ env_pc' = "sourced"
    /\ UNCHANGED <<cwd, user_home, env_files, current, inspected, env_vars, environ, config,
                   resolved_config, cwd_writable, connection>>
    /\ UNCHANGED runVars

NextResolve == resolve_connection_config \/ default_data_source

SpecResolve == InitResolve /\ [][NextResolve]_vars

(***************************************************************************)
(* The network adapters' connect (lines 138-159 and 173-188)               *)
(***************************************************************************)

\* adapter_kwargs  (lines 593-596)
adapter_kwargs(resolved) ==
    [k \in DOMAIN resolved \ {"DB_TYPE", "DB_SOURCE"} |-> resolved[k]]

\* The driver parameter each canonical key is mapped to (lines 147-151 and
\* 180-184)
postgres_args ==
    [DB_HOST |-> "host", DB_PORT |-> "port", DB_USER |-> "user", DB_PASS |-> "password",
     DB_NAME |-> "dbname"]
mysql_args ==
    [DB_HOST |-> "host", DB_PORT |-> "port", DB_USER |-> "user", DB_PASS |-> "password",
     DB_NAME |-> "database"]

\* connect_args: one driver parameter for each canonical key in kwargs
connect_args(kwargs, names) ==
    [p \in {names[k] : k \in DOMAIN kwargs \cap DOMAIN names} |->
        kwargs[CHOOSE k \in DOMAIN kwargs \cap DOMAIN names : names[k] = p]]

\* source and "://" in source  (line 154)
uses_dsn(source) ==
    /\ source.text # <<>>
    /\ \E i \in DOMAIN source.text : source.text[i] = "://"

\* The two calls of a driver's connect
DsnCall(source) == [form |-> "dsn", dsn |-> source, args |-> <<>>]
ArgsCall(args) == [form |-> "params", dsn |-> Unset, args |-> args]

\* PostgresAdapter.connect after the import (lines 144-157)
PostgresAdapter_connect(source, kwargs) ==
    IF uses_dsn(source) THEN DsnCall(source)
    ELSE ArgsCall(connect_args(kwargs, postgres_args))

\* MySqlAdapter.connect after the import (lines 179-186)
MySqlAdapter_connect(source, kwargs) == ArgsCall(connect_args(kwargs, mysql_args))

\* The sources and resolved configurations of the model
NetworkTypes == {"postgres", "postgresql", "mysql"}
NetworkSources ==
    {Str(<<>>), Str(<<"db.example", "app">>), Str(<<"postgresql", "://", "db.example">>),
     Str(<<"mysql", "://", "db.example">>)}
NetworkKeys == {"DB_HOST", "DB_PORT", "DB_USER", "DB_PASS", "DB_NAME"}

\* db_type = resolved_config.get("DB_TYPE", "sqlite")  (line 579)
resolved_type(resolved) == get(resolved, "DB_TYPE", Str(<<"sqlite">>)).text[1]

InitConnect ==
    /\ InitProcess
    /\ driverDirs = {}
    /\ cwd = <<>>
    /\ user_home = <<>>
    /\ env_files = <<>>
    /\ current = <<>>
    /\ inspected = {}
    /\ env_vars = <<>>
    /\ env_pc = "connect"
    /\ environ = <<>>
    /\ config = <<>>
    /\ \E keys \in SUBSET NetworkKeys, t \in NetworkTypes :
          resolved_config = [k \in keys \cup {"DB_TYPE"} |->
                                IF k = "DB_TYPE" THEN Str(<<t>>) ELSE Str(<<"value of", k>>)]
    /\ dais_dir = "present"
    /\ cwd_writable = TRUE
    /\ db_source \in NetworkSources
    /\ connection = <<>>

\* adapter.connect(db_source, **adapter_kwargs) of a network adapter whose
\* driver is importable  (line 276)
adapter_connect ==
    /\ env_pc = "connect"
    /\ connection' = IF resolved_type(resolved_config) = "mysql"
                     THEN MySqlAdapter_connect(db_source, adapter_kwargs(resolved_config))
                     ELSE PostgresAdapter_connect(db_source, adapter_kwargs(resolved_config))
    /\ env_pc' = "connected"
    /\ UNCHANGED <<cwd, user_home, env_files, current, inspected, env_vars, environ, config,
                   resolved_config, dais_dir, cwd_writable, db_source>>
    /\ UNCHANGED runVars

NextConnect == adapter_connect

SpecConnect == InitConnect /\ [][NextConnect]_vars

(***************************************************************************)
(* Properties                                                              *)
(***************************************************************************)

\* The request has returned to the host
Done == pc = "done"

\* C1: on every exit path of run_query, close() has been called exactly once
\* on each adapter the request created by the time the response is returned.
C1_CloseExactlyOnce ==
    Done => \A i \in DOMAIN adapters : adapters[i].closes = 1

\* C2: once the external interpreter has been asked, the one-shot guard is
\* true whatever the outcome was, so the process never asks it a second time.
C2_GuardSetAfterAnyAttempt ==
    /\ extTotal > 0 => synced
    /\ extTotal <= 1

\* C3: the request is executed again if and only if the external query
\* appended at least one directory to sys.path; when it returned and nothing
\* was appended, the request is not executed again.
C3_RetryOnlyWhenPathAdded ==
    /\ extOutcome = "nothing" => attempt = 1
    /\ extOutcome = "added" => attempt = 2

\* C4: the retried invocation parses the same json, csv and no-limit flags
\* and the same --output path as the first one, and hands the same SQL to
\* the adapter.
C4_RetrySameRequest ==
    (attempt = 2 /\ extOutcome = "added" /\ pc # "parse") =>
        /\ flags = first.flags
        /\ clean_query = first.sql

\* The state part of C5: at most one retry per process, at most two
\* executions and one external query per request, missing_pkg when the driver
\* is still missing on the retry.
C5_State ==
    /\ retries > 0 => synced
    /\ retries <= 1
    /\ attempt <= 2
    /\ extQueries <= 1
    /\ (Done /\ attempt = 2 /\ failure = "missing_driver") =>
           response = <<MissingPkg(PackageOf(db_type))>>

\* C5: the one-shot guard never goes from true back to false; the process
\* retries at most once in its lifetime; a request is executed at most twice
\* and asks the external interpreter at most once; and a request whose
\* driver is still missing on the retry returns missing_pkg.
C5_SingleRetry == [](C5_State) /\ [][synced => synced']_vars

\* C5, witness: a retried request whose driver is still missing has
\* returned missing_pkg.
C5_Witness ==
    /\ Done
    /\ attempt = 2
    /\ failure = "missing_driver"
    /\ response = <<MissingPkg(PackageOf(db_type))>>

\* C6: when the external interpreter query fails, the request is not
\* retried, sys.path is what it was before the query, and the response is
\* missing_pkg with the package of the original failure.
C6_FailedSyncFallsThrough ==
    extOutcome = "failed" =>
        /\ attempt = 1
        /\ sysPath = pathBefore
        /\ pc \in {"report", "done"}
        /\ Done => response = <<MissingPkg(PackageOf(db_type))>>

\* C6, witness: a request whose external query failed has returned.
C6_Witness ==
    /\ Done
    /\ extOutcome = "failed"
    /\ response = <<MissingPkg(PackageOf(db_type))>>

\* The message an error envelope carries for the failure the request met:
\* the exception's own message, or the text of the permission check when no
\* exception was raised.
FailureMessage == IF exc = NoExc THEN <<"Permission denied">> ELSE exc.msg

\* C7: handle_command returns exactly one envelope and no exception leaves
\* it; an unknown backend tag, a connection failure, a rejected statement, a
\* permission failure and a file I/O failure give status error with the
\* failure's message, and a missing driver gives status missing_pkg.
C7_OneEnvelopeNoEscape ==
    /\ ~escaped
    /\ Len(response) = (IF Done THEN 1 ELSE 0)
    /\ Done =>
        /\ failure \in {"unknown_backend", "connection", "query", "permission", "io"} =>
               response[1] = ErrorEnvelope(FailureMessage)
        /\ failure = "missing_driver" => response[1].status = "missing_pkg"
        /\ failure = "handler" => response[1].status = "error"
        /\ failure = "none" => response[1].status = "success"

\* C7, witness: a statement the backend rejected has been answered with an
\* error envelope carrying the backend's message.
C7_Witness ==
    /\ Done
    /\ failure = "query"
    /\ response = <<ErrorEnvelope(<<"no such table">>)>>

\* The fields of an envelope
Has(e, field) == field \in DOMAIN e

\* C8: every envelope has status success, error or missing_pkg; action is
\* present exactly on success and is print or page; pager is present exactly
\* when action is page; package exactly on missing_pkg; message exactly on
\* error.
C8_EnvelopeShape ==
    \A i \in DOMAIN response :
        LET e == response[i]
        IN  /\ Has(e, "status")
            /\ e.status \in {"success", "error", "missing_pkg"}
            /\ Has(e, "action") <=> e.status = "success"
            /\ Has(e, "action") => e.action \in {"print", "page"}
            /\ Has(e, "pager") <=> (Has(e, "action") /\ e.action = "page")
            /\ Has(e, "package") <=> e.status = "missing_pkg"
            /\ Has(e, "message") <=> e.status = "error"

\* C8, witness: a paged response has been returned.
C8_Witness ==
    /\ Done
    /\ Len(response) = 1
    /\ Has(response[1], "action")
    /\ response[1].action = "page"

(***************************************************************************)
(* Properties of the parsing                                               *)
(***************************************************************************)

\* The parsing of the request has run
Parsed == pc = "get_adapter"

\* Two strings are equal up to the case of their letters
SameLetters(a, b) ==
    /\ Len(a) = Len(b)
    /\ \A k \in 1..Len(a) : LowerChar(a[k]) = LowerChar(b[k])

\* The whitespace-delimited tokens of a string: where they start, the token
\* starting at a position, and how often a given token occurs.
TokenStarts(s) == {i \in 1..Len(s) : s[i] # " " /\ (i = 1 \/ s[i - 1] = " ")}
TokenAt(s, i) == SubSeq(s, i, WordRunEnd(s, i))
TokenCount(s, t) == Cardinality({i \in TokenStarts(s) : TokenAt(s, i) = t})
FinalToken(s) ==
    IF TokenStarts(s) = {} THEN <<>>
    ELSE TokenAt(s, CHOOSE i \in TokenStarts(s) : \A m \in TokenStarts(s) : i >= m)

\* Number of places at which p occurs in s
Occurrences(s, p) == Cardinality({i \in 1..Len(s) : MatchesAt(s, p, i)})

\* The conditions C9 names for the safety limit, on the clean SQL
C9_LimitDue ==
    /\ ~flags.json /\ ~flags.csv /\ ~flags.no_limit
    /\ Len(clean_sql) >= 6
    /\ SameLetters(SubSeq(clean_sql, 1, 6), <<"s","e","l","e","c","t">>)
    /\ ~\E i \in 1..(Len(clean_sql) - 4) :
          SameLetters(SubSeq(clean_sql, i, i + 4), <<"l","i","m","i","t">>)
    /\ ~\E h \in { <<"w","h","e","r","e">>, <<"b","y">>, <<"a","n","d">>, <<"o","r">>,
                  <<"i","n">>, <<"s","e","t">>, <<"f","r","o","m">> } :
          SameLetters(FinalToken(clean_sql), h)

\* C9: the SQL handed to the adapter is the clean SQL followed by exactly one
\* " LIMIT 1000" when no flag is set, the clean SQL begins with select in any
\* letter case, holds no "limit" in any letter case and does not end in a
\* hanging keyword; in every other case it is the clean SQL unchanged.
C9_SafetyLimit ==
    Parsed =>
        IF C9_LimitDue
        THEN /\ clean_query = clean_sql \o <<" ","L","I","M","I","T"," ","1","0","0","0">>
             /\ Occurrences(clean_query, <<" ","L","I","M","I","T"," ","1","0","0","0">>) = 1
        ELSE clean_query = clean_sql

\* C9, witness: a select written in capitals got the limit appended.
C9_Witness ==
    /\ Parsed
    /\ C9_LimitDue
    /\ clean_sql = <<"S","E","L","E","C","T"," ","x">>
    /\ clean_query = clean_sql \o LIMIT_SUFFIX

\* What run_query made of one boolean flag
FlagSet(flag) ==
    CASE flag = F_json -> flags.json
      [] flag = F_csv -> flags.csv
      [] flag = F_no_limit -> flags.no_limit

\* C10: each of --json, --csv and --no-limit sets its flag and is removed
\* from the SQL whenever it is a whole token of the query, at any position
\* including the first, and is never matched inside a longer token. (Stated
\* for queries without --output, whose value would take the next token.)
C10_WholeTokenFlags ==
    (Parsed /\ ~Contains(argQuery, F_output)) =>
        \A flag \in {F_json, F_csv, F_no_limit} :
            /\ FlagSet(flag) <=> TokenCount(argQuery, flag) > 0
            /\ TokenCount(argQuery, flag) > 0 =>
                   TokenCount(clean_sql, flag) < TokenCount(argQuery, flag)

(***************************************************************************)
(* Properties of the saved queries                                         *)
(***************************************************************************)

\* The input as handle_command trims it, and the keys of the saved queries
Trimmed == Strip(cmd_input)
SavedKeys == {K_users, K_heavy_report}

\* run_query has been called for the request and has not been re-entered
FirstCall == attempt = 1

C12_AliasWithFlags ==
    \A k \in SavedKeys : \A flag \in {F_json, F_csv} :
        (FirstCall /\ Trimmed = k \o <<" ">> \o flag /\ pc \notin {"parse", "idle"}) =>
            /\ clean_sql = DB_QUERIES[k]
            /\ FlagSet(flag)

(***************************************************************************)
(* Properties of the output branches                                       *)
(***************************************************************************)

\* The request has returned a success envelope without meeting a failure
Succeeded == Done /\ failure = "none" /\ Len(response) = 1

\* The statement was accepted by the backend
Executed == sent # <<>> /\ exc.msg # <<"no such table">>

\* The request asked for the table view of a statement that yields columns
TableView == ~flags.json /\ ~flags.csv /\ cursor.description

\* C13: a query with --output <file> and neither --json nor --csv saves the
\* result as JSON to that file.
C13_OutputAloneSavesJson ==
    (Succeeded /\ flags.output # None /\ ~flags.json /\ ~flags.csv /\ cursor.description) =>
        /\ target.kind = "output"
        /\ target.state = "closed"
        /\ target.rows = cursor.total
        /\ response[1] = PrintEnvelope("Saved JSON to: target")

\* C14 as stated: without an output path, a result of at most 1000 rows is
\* returned inline and one of 1001 or more rows is spooled, in the table
\* view, the JSON mode and the CSV mode alike.
C14_SameBoundaryEveryMode ==
    (Succeeded /\ Executed /\ flags.output = None) =>
        /\ cursor.total <= 1000 => response[1].action = "print"
        /\ cursor.total >= 1001 => response[1].action = "page"

\* C14, amended: without an output path, the JSON and the CSV mode return
\* at most 1000 rows inline and spool 1001 or more rows for the pager cat;
\* the table view returns inline when it renders at most 50 lines (header,
\* separator and at most 48 rows) and spools otherwise.
C14_BoundaryPerMode ==
    (Succeeded /\ Executed /\ flags.output = None) =>
        /\ (flags.json \/ flags.csv) =>
            /\ cursor.total <= 1000 => response[1].action = "print"
            /\ cursor.total >= 1001 =>
                   (response[1].action = "page" /\ response[1].pager = "cat")
        /\ TableView =>
            /\ cursor.total <= 48 => response[1].action = "print"
            /\ cursor.total >= 49 => response[1].action = "page"

\* C14, witness: a JSON result of exactly 1000 rows has been returned inline.
C14_Witness ==
    /\ Succeeded
    /\ flags.json
    /\ flags.output = None
    /\ cursor.total = 1000
    /\ response[1].action = "print"

\* C15 as stated: over a table of 5000 rows the table view renders all 5000
\* rows under --no-limit and exactly the 1001 rows of the peek window
\* without it, spooled in both cases.
C15_PeekWindowRendered ==
    (Succeeded /\ TableView /\ cursor.table = 5000) =>
        /\ all_rows = (IF flags.no_limit THEN 5000 ELSE 1001)
        /\ response[1].action = "page"

\* C15, amended: over a table of 5000 rows the table view renders all 5000
\* rows under --no-limit; without it, a select that got the safety limit
\* renders exactly 1000 rows, and a select that escaped the safety limit (it
\* holds a limit of its own) renders the rows it yields up to the 1001 of
\* the peek window. A rendering of 49 rows or more is spooled.
C15_LimitOrPeekWindow ==
    (Succeeded /\ TableView /\ cursor.table = 5000) =>
        /\ all_rows = (IF flags.no_limit THEN 5000
                       ELSE IF clean_query # clean_sql THEN 1000
                       ELSE IF cursor.total <= 1001 THEN cursor.total ELSE 1001)
        /\ all_rows >= 49 => response[1].action = "page"

\* C15, witness: the table view under --no-limit has rendered 5000 rows.
C15_Witness ==
    /\ Succeeded
    /\ TableView
    /\ flags.no_limit
    /\ cursor.table = 5000
    /\ all_rows = 5000
    /\ response[1].action = "page"

\* C16: when the cursor of the executed statement has no column metadata,
\* the response is the fixed acknowledgement and nothing was fetched,
\* whichever flags were given.
C16_NoMetadataAcknowledged ==
    (Done /\ Executed /\ ~cursor.description) =>
        /\ failure = "none"
        /\ response = <<PrintEnvelope("Command executed successfully.")>>
        /\ cursor.pos = 0
        /\ exc = NoExc

\* C17: an export to an --output path whose directory is not writable
\* returns an error envelope and leaves the target as it was, also when a
\* file of that name exists.
C17_UnwritableDirectory ==
    (Done /\ target.kind = "output" /\ ~target.dirWritable) =>
        /\ Len(response) = 1
        /\ response[1].status = "error"
        /\ target.state = "untouched"

(***************************************************************************)
(* Properties of load_env_file                                             *)
(***************************************************************************)

\* load_env_file has returned
Returned == env_pc = "returned"

\* The directories from cwd upwards that hold a .env file, and the nearest
FileHolders == {d \in DOMAIN env_files : AncestorOrSelf(d, cwd)}
Nearest(D) == D \in FileHolders /\ \A d \in FileHolders : Len(d) <= Len(D)

\* d lies strictly above c
StrictlyAbove(d, c) == AncestorOrSelf(d, c) /\ d # c

\* The home directory is cwd or lies between cwd and D, below D
HomeBelow(D) == AncestorOrSelf(user_home, cwd) /\ StrictlyAbove(D, user_home)

\* C18 as stated: for every directory D with a .env file and every cwd at or
\* below D with no nearer .env file, load_env_file(cwd) returns D's parsed
\* mapping and nothing of a file further up.
C18_NearestFileAlways ==
    Returned =>
        \A D \in FileHolders :
            Nearest(D) => env_vars = parse_env(env_files[D])

\* C18, amended: the same, provided the home directory is not cwd or a
\* directory between cwd and D; when it is, the walk stops at the home
\* directory and the empty mapping is returned. Every key returned comes
\* from the nearest file.
C18_NearestFileBelowHome ==
    Returned =>
        \A D \in FileHolders :
            Nearest(D) =>
                /\ ~HomeBelow(D) =>
                       /\ env_vars = parse_env(env_files[D])
                       /\ \A k \in DOMAIN env_vars : env_vars[k] = D
                /\ HomeBelow(D) => env_vars = <<>>

\* C18, witness: a sparse file two directories up masks the file of the
\* root and has been returned.
C18_Witness ==
    /\ Returned
    /\ Len(cwd) = 2
    /\ root \in FileHolders
    /\ Nearest(dirname(cwd))
    /\ ~HomeBelow(dirname(cwd))
    /\ DOMAIN env_vars = {"DB_NAME"}
    /\ env_vars["DB_NAME"] = dirname(cwd)

\* The state part of C19: only directories from cwd upwards are inspected;
\* the directory the walk ended in, the home directory and the root
\* included, was inspected; and no directory strictly above the home
\* directory is inspected once the home directory was.
C19_State ==
    /\ \A d \in inspected : AncestorOrSelf(d, cwd)
    /\ Returned => current \in inspected
    /\ user_home \in inspected => \A d \in inspected : ~StrictlyAbove(d, user_home)

\* C19: the upward walk returns from every start directory, inspects the
\* home directory and the root themselves when it reaches them, and never
\* inspects a strict ancestor of the home directory after reaching it.
C19_WalkTerminates == <>Returned /\ [](C19_State)

\* C19, witness: the walk has ended in a home directory above cwd that
\* holds no file and is not the root.
C19_Witness ==
    /\ Returned
    /\ current = user_home
    /\ user_home # cwd
    /\ user_home # root
    /\ user_home \in inspected
    /\ env_vars = <<>>

(***************************************************************************)
(* Properties of _resolve_connection_config                                *)
(***************************************************************************)

Resolved == env_pc = "resolved"

\* The alias table in force: the one of the config module if it has one
TableInForce ==
    IF config.module /\ "DB_KEY_MAPPING" \in DOMAIN config.attrs
    THEN config.attrs["DB_KEY_MAPPING"]
    ELSE default_mappings

\* The positions in a key's alias list whose alias a source holds
HitsIn(source, key) ==
    {i \in 1..Len(TableInForce[key]) : TableInForce[key][i] \in DOMAIN source}
FirstIn(source, key) ==
    source[TableInForce[key][CHOOSE i \in HitsIn(source, key) :
                                 \A j \in HitsIn(source, key) : i <= j]]

\* The static defaults hold a value for the key
InDefaults(key) ==
    config.module /\ key \in DOMAIN config.attrs /\ config.attrs[key].kind # "none"

C30_NoFlagTokenLeft ==
    Parsed =>
        \A flag \in {F_json, F_csv, F_no_limit} :
            TokenCount(argQuery, flag) > 0 => TokenCount(clean_sql, flag) = 0

(***************************************************************************)
(* Properties of the default data source                                   *)
(***************************************************************************)

\* handle_command has chosen its data source
Sourced == env_pc = "sourced"

\* The in-memory database
memory_source == Str(<<":memory:">>)

\* C21: when DB_SOURCE is unresolved the data source is the user-scoped file
\* if its directory exists or could be created, otherwise the file relative
\* to the working directory, and the in-memory database when neither file
\* location is usable.
C21_FallbackChain ==
    (Sourced /\ "DB_SOURCE" \notin DOMAIN resolved_config) =>
        db_source = IF dais_dir \in {"present", "created"} THEN user_source
                    ELSE IF cwd_writable THEN local_source
                    ELSE memory_source

\* C27: a request whose DB_SOURCE is resolved creates no directory for the
\* default data source; ~/.dais is created only when DB_SOURCE is unresolved.
C27_ResolvedSourceCreatesNothing ==
    (Sourced /\ "DB_SOURCE" \in DOMAIN resolved_config) => dais_dir # "created"

(***************************************************************************)
(* Properties of the adapter handle                                        *)
(***************************************************************************)

\* C22: a request obtains exactly one adapter handle: get_adapter is called
\* once per request, also when the request goes through the missing-driver
\* retry, and the handle in use is one this request created.
C22_OneHandlePerRequest ==
    /\ Len(adapters) <= 1
    /\ adapter \in {0} \cup DOMAIN adapters
    /\ (Done /\ attempt >= 1 /\ db_type \in KnownTypes) => Len(adapters) = 1

(***************************************************************************)
(* Properties of the network adapters                                      *)
(***************************************************************************)

\* A network adapter has called its driver
Connected == env_pc = "connected"

\* The source holds the scheme separator
HasScheme == \E i \in DOMAIN db_source.text : db_source.text[i] = "://"

\* The driver got exactly the canonical keys that are resolved, each under
\* the parameter name given for it
DiscreteParameters(database) ==
    /\ connection.form = "params"
    /\ \A pair \in {<<"DB_HOST", "host">>, <<"DB_PORT", "port">>, <<"DB_USER", "user">>,
                    <<"DB_PASS", "password">>, <<"DB_NAME", database>>} :
          IF pair[1] \in DOMAIN resolved_config
          THEN /\ pair[2] \in DOMAIN connection.args
               /\ connection.args[pair[2]] = resolved_config[pair[1]]
          ELSE pair[2] \notin DOMAIN connection.args
    /\ Cardinality(DOMAIN connection.args)
          = Cardinality(DOMAIN resolved_config \cap NetworkKeys)

\* The database parameter of each backend
DatabaseParameter == IF resolved_config["DB_TYPE"].text = <<"mysql">> THEN "database" ELSE "dbname"

\* C23: both network backends connect with the full connection
\* string when the source contains "://", and otherwise with the discrete
\* host, port, user, password and database parameters of the canonical keys.
C23_BothPreferConnectionString ==
    Connected =>
        IF HasScheme
        THEN connection.form = "dsn" /\ connection.dsn = db_source
        ELSE DiscreteParameters(DatabaseParameter)

(***************************************************************************)
(* Properties of a .env file that cannot be read to its end                *)
(***************************************************************************)

\* Reading the .env file of the start directory raises somewhere
ReadFails == \E i \in 1..Len(env_files[cwd]) : env_files[cwd][i].kind = "raise"

\* C24: when parsing the .env file fails part-way, load_env_file returns the
\* empty mapping: no key parsed before the failure is returned.
C24_FailedParseReturnsNothing ==
    (env_pc = "returned" /\ cwd \in DOMAIN env_files /\ ReadFails) => env_vars = <<>>

(***************************************************************************)
(* Properties of the exported file                                         *)
(***************************************************************************)

\* A JSON or CSV export to a file has completed
Exported ==
    /\ Succeeded
    /\ flags.json \/ flags.csv
    /\ target.kind \in {"output", "temp"}
    /\ target.state = "closed"

\* The spans are the rows 1..n, each once and in order
Covers(spans, n) ==
    /\ n = 0 <=> spans = <<>>
    /\ spans # <<>> => spans[1][1] = 1 /\ spans[Len(spans)][2] = n
    /\ \A i \in 1..Len(spans) : spans[i][1] <= spans[i][2]
    /\ \A i \in 1..(Len(spans) - 1) : spans[i + 1][1] = spans[i][2] + 1

\* C25: a JSON or CSV export to a file holds every row of the result once,
\* in cursor order, for every size of result: the peek of up to 1001 rows,
\* then batches of up to 1000 rows.
C25_ExportHoldsEveryRowOnce ==
    Exported =>
        /\ Covers(target.spans, cursor.total)
        /\ target.rows = cursor.total
        /\ \A i \in 1..Len(target.spans) :
              target.spans[i][2] - target.spans[i][1] + 1 <= IF i = 1 THEN 1001 ELSE 1000

C25_Witness ==
    /\ Exported
    /\ Len(target.spans) >= 3
    /\ target.spans[1] = <<1, 1001>>

(***************************************************************************)
(* Properties of the table view                                            *)
(***************************************************************************)

\* C26: a table view of at least one row has two lines and one line per
\* rendered row.  With more than 50 lines (49 rows or more) it is spooled to
\* a temporary file and returned with the action page and the pager of the
\* PAGER variable, or less -S when that is unset; with 50 lines or fewer it
\* is returned inline with the action print and no pager.
C26_TableViewPaging ==
    (Succeeded /\ TableView /\ all_rows >= 1) =>
        /\ rendered.lines = all_rows + 2
        /\ IF all_rows >= 49
           THEN /\ response[1].action = "page"
                /\ response[1].pager = IF rendered.PAGER = "unset" THEN "less -S"
                                       ELSE rendered.PAGER
                /\ rendered.PAGER # "unread"
                /\ target.kind = "temp" /\ target.state = "closed"
                /\ target.rows = all_rows
           ELSE /\ response[1].action = "print"
                /\ "pager" \notin DOMAIN response[1]
                /\ target = NoTarget

C26_Witness ==
    /\ Succeeded /\ TableView
    /\ all_rows = 49
    /\ response[1].action = "page"
    /\ response[1].pager = "more"

(***************************************************************************)
(* Properties of the order of fetching and closing                         *)
(***************************************************************************)

\* C28: no execute and no fetch is issued on an adapter after its close():
\* peeking and draining are over before the close, and the error handlers
\* only close.
C28_NoUseAfterClose ==
    \A i \in DOMAIN adapters : adapters[i].late = 0

C28_Witness ==
    /\ Succeeded /\ TableView
    /\ flags.no_limit
    /\ all_rows = 5000
    /\ adapters[adapter].closes = 1

(***************************************************************************)
(* Properties of an alias table of the config module                       *)
(***************************************************************************)

\* The config module has an alias table of its own
HasOverride == config.module /\ "DB_KEY_MAPPING" \in DOMAIN config.attrs

\* Some alias the override lists for the key is held by the source
OverrideHit(source, key) ==
    \E i \in 1..Len(config.attrs["DB_KEY_MAPPING"][key]) :
        config.attrs["DB_KEY_MAPPING"][key][i] \in DOMAIN source

\* C29: an alias table of the config module replaces the built-in one
\* entirely: the resolved configuration holds only canonical keys of the
\* override, found under the override's aliases or in the static defaults;
\* a canonical key the override leaves out is unresolved even when a source
\* defines it under its canonical name.
C29_OverrideReplacesTable ==
    (Resolved /\ HasOverride) =>
        /\ DOMAIN resolved_config \subseteq DOMAIN config.attrs["DB_KEY_MAPPING"]
        /\ \A key \in DOMAIN resolved_config :
              OverrideHit(env_vars, key) \/ OverrideHit(environ, key) \/ InDefaults(key)
        /\ \A key \in DOMAIN default_mappings \ DOMAIN config.attrs["DB_KEY_MAPPING"] :
              key \notin DOMAIN resolved_config

C29_Witness ==
    /\ Resolved /\ HasOverride
    /\ "DB_PORT" \in DOMAIN config.attrs
    /\ "DB_FILE" \in DOMAIN env_vars /\ env_vars["DB_FILE"] # Str(<<>>)
    /\ "DB_FILE" \in DOMAIN environ
    /\ "DB_TYPE" \in DOMAIN resolved_config
    /\ "DB_PORT" \notin DOMAIN resolved_config
    /\ "DB_SOURCE" \notin DOMAIN resolved_config

====
